---- MODULE Spec2Model ----
(***************************************************************************)
(* Model of scraper/main.py (promo-watcher): the run loop of main(), the   *)
(* seen-state file, the debug directory, the two Slack channels and the    *)
(* pure helpers the run loop is built on.                                  *)
(*                                                                         *)
(* Strings that the program only compares (dedup keys, urls, titles) are   *)
(* natural numbers; 0 stands for the empty / missing string (falsy in      *)
(* Python).  Debug file names are triples <<prefix, stamp, ext>>.          *)
(***************************************************************************)
EXTENDS Integers, Sequences, FiniteSets, TLC

\* ------------------------------------------------------------------ bounds
MaxEvents == 1    \* environment events in one behaviour: page changes,
                  \* extraction faults, webhook outages, capture anomalies
MaxTime   == 2    \* the debug captures read the clock values 0..MaxTime
MaxLen    == 3    \* length of the lists a helper is called on by itself
PageLen   == 12   \* length of the longest remote listing

\* ------------------------------------------------------- program constants
MaxNotify         == 10   \* new_items[:10]
DEFAULT_MAX_ITEMS == 30
BANNER_MAX_ITEMS  == 20
OLENS_MAX_CARDS   == 15
ANN365_MAX_PAGES  == 15   \* scrape_ann365: max_pages
ANN365_MAX_ITEMS  == 40
HAPA_MAX_EVENTS   == 10

SITES ==
  << [site |-> "O-Lens",        mode |-> "normal",  fn |-> "scrape_olens"],
     [site |-> "Hapa Kristin",  mode |-> "desktop", fn |-> "scrape_hapakristin"],
     [site |-> "Lens-me",       mode |-> "normal",  fn |-> "scrape_lensme"],
     [site |-> "MYFiPN",        mode |-> "normal",  fn |-> "scrape_myfipn"],
     [site |-> "CHUU Lens",     mode |-> "normal",  fn |-> "scrape_chuulens"],
     [site |-> "Gemhour",       mode |-> "normal",  fn |-> "scrape_gemhour"],
     [site |-> "i-sha",         mode |-> "normal",  fn |-> "scrape_i_sha"],
     [site |-> "shop.winc.app", mode |-> "normal",  fn |-> "scrape_shop_winc"],
     [site |-> "ann365",        mode |-> "normal",  fn |-> "scrape_ann365"],
     [site |-> "lenbling",      mode |-> "normal",  fn |-> "scrape_lenbling"],
     [site |-> "yourly",        mode |-> "normal",  fn |-> "scrape_yourly"],
     [site |-> "i-dol",         mode |-> "normal",  fn |-> "scrape_i_dol"] >>

NSites   == Len(SITES)
SiteKeys == {SITES[i].site : i \in 1..NSites}

\* site_key.replace(' ', '_') : only one catalog key contains a space
ReplaceSpaces(site_key) ==
  IF site_key = "Hapa Kristin" THEN "Hapa_Kristin"
  ELSE IF site_key = "CHUU Lens" THEN "CHUU_Lens"
  ELSE site_key

\* --------------------------------------------------------------- utilities
\* the value of a singleton set
Only(S) == CHOOSE x \in S : TRUE

Range(s) == {s[i] : i \in 1..Len(s)}

Min(a, b) == IF a <= b THEN a ELSE b

\* items[:n]
Take(s, n) == SubSeq(s, 1, Min(n, Len(s)))

\* [x for x in s if Keep(x)]
RECURSIVE SelectFrom(_, _)
SelectFrom(s, keep) ==
  IF s = <<>> THEN <<>>
  ELSE Only({ IF Head(s) \in k THEN <<Head(s)>> \o SelectFrom(Tail(s), k)
              ELSE SelectFrom(Tail(s), k) : k \in {keep} })

\* sorted(seen_set) : ascending list of a finite set of keys
RECURSIVE sorted(_)
sorted(S) ==
  IF S = {} THEN <<>>
  ELSE Only({ Only({ <<m>> \o sorted(T \ {m}) :
                m \in {CHOOSE x \in T : \A y \in T : x <= y} }) :
              T \in {S} })

Item(k) == [key |-> k, url |-> k, title |-> k]

\* k = it.get(key_field) or it.get("url") or it.get("title")
DedupKey(it) ==
  IF it.key # 0 THEN it.key
  ELSE IF it.url # 0 THEN it.url
  ELSE it.title

\* the loop of _dedup_keep_order with its accumulators out and s
RECURSIVE DedupLoop(_, _, _)
DedupLoop(items, out, s) ==
  IF items = <<>> THEN out
  ELSE LET it == Head(items)
           k  == DedupKey(it)
       IN  Only({ DedupLoop(x[1], x[2], x[3]) :
                    x \in {IF k = 0 \/ k \in s THEN <<Tail(items), out, s>>
                           ELSE <<Tail(items), Append(out, it), s \cup {k}>>} })

\* the loop without its set s: unkeyed items go, repeated keys stay
_dedup_keep_order_NoSet(items) ==
  SelectFrom(items, {it \in Range(items) : DedupKey(it) # 0})

_dedup_keep_order(items) == Only({ DedupLoop(x, <<>>, {}) : x \in {items} })

\* --------------------------------------------------------------------- urls
\* The pages of a site are its promotion pages, numbered 1..PageLen
\* (/event/view/<n>), and one page that is no promotion (/about).  An absolute
\* URL is a positive number made of the path and the query string (0: none);
\* 0 is the empty string.
OtherPath == PageLen + 1

Url(path, query) == path + (OtherPath + 1) * query

UrlPath(url) == url % (OtherPath + 1)

UrlQuery(url) == url \div (OtherPath + 1)

\* an <a href> of a page: the kind of its href, the path and query string the
\* href names, and its best-effort title (inner text, else the alt of its image)
Anchor(kind, path, query, text) ==
  [kind |-> kind, path |-> path, query |-> query, text |-> text]

\* lines 145-151: urljoin takes scheme and host from base and keeps the path
\* and the query string of href
_abs_url(base, href) ==
  IF href.kind = "empty" THEN 0
  ELSE IF href.kind = "javascript" THEN 0
  ELSE Url(href.path, href.query)

\* re.search(p, url) for the patterns of the list sites: "event" is found in
\* the URLs of promotion pages whatever their query string, "other" is an
\* end-anchored pattern found in the URL of the other page without a query
\* string, "site" (host and board prefix) is found in every URL of the site
Search(p, url) ==
  CASE p = "event" -> UrlPath(url) # OtherPath
    [] p = "other" -> UrlPath(url) = OtherPath /\ UrlQuery(url) = 0
    [] OTHER       -> TRUE


\* ------------------------------------------------------------- debug files
\* DEBUG_DIR / f"{prefix}_{stamp}.{ext}" ; prefix is a tuple of its parts
FileName(prefix, stamp, ext) == [prefix |-> prefix, stamp |-> stamp, ext |-> ext]

\* _save_debug(page, prefix): screenshot and markup, each write may fail and
\* the failure is swallowed; wr is the set of extensions that got written
_save_debug(prefix, stamp, wr) ==
  {FileName(prefix, stamp, e) : e \in (wr \cap {"png", "html"})}

\* _save_debug_text(prefix, text)
_save_debug_text(prefix, stamp, wr) ==
  {FileName(prefix, stamp, e) : e \in (wr \cap {"txt"})}

Exts == {"png", "html", "txt"}

\* ------------------------------------------------------------- extractors
\* An extractor call returns [raised, items, shots, texts]: whether it raised,
\* the list it returned, and the prefixes it passed to _save_debug and
\* _save_debug_text.  content is what the remote page exposes (the raw
\* candidate items in document order), fault the failure the call meets.
Result(raised, items, shots, texts) ==
  [raised |-> raised, items |-> items, shots |-> shots, texts |-> texts]

Raised == Result(TRUE, <<>>, {}, {})

\* lines 252-271: the loop over the anchors with its accumulator results
RECURSIVE ListLoop(_, _, _, _, _)
ListLoop(anchors, include_patterns, exclude_patterns, max_items, results) ==
  IF anchors = <<>> THEN results
  ELSE LET a    == Head(anchors)
           url  == _abs_url("base", a)
           skip == \/ url = 0
                   \/ /\ include_patterns # <<>>
                      /\ ~\E p \in Range(include_patterns) : Search(p, url)
                   \/ /\ exclude_patterns # <<>>
                      /\ \E p \in Range(exclude_patterns) : Search(p, url)
       IN  IF skip
           THEN ListLoop(Tail(anchors), include_patterns, exclude_patterns,
                         max_items, results)
           ELSE Only({ IF Len(more) >= max_items THEN more
                       ELSE ListLoop(Tail(anchors), include_patterns,
                                     exclude_patterns, max_items, more) :
                       more \in {Append(results, [key |-> url, url |-> url,
                                                  title |-> a.text])} })

\* lines 237-279; anchors is page.locator("a[href]").all()
scrape_list_page_anchors(anchors, include_patterns, exclude_patterns, max_items, fault) ==
  IF fault \in {"raise", "raise_dead"} THEN Raised
  ELSE LET results == _dedup_keep_order(
                        ListLoop(anchors, include_patterns, exclude_patterns,
                                 max_items, <<>>))
       IN  Result(FALSE, results,
                  IF results = <<>> THEN {<<"list_no_results">>} ELSE {}, {})

\* lines 499-540: the patterns each list site passes
ListPatterns(fn) ==
  CASE fn = "scrape_lensme" -> [include |-> <<"event", "event">>, exclude |-> <<>>]
    [] fn = "scrape_i_dol"  -> [include |-> <<"site">>, exclude |-> <<>>]
    [] OTHER                -> [include |-> <<"site">>, exclude |-> <<"other">>]

\* the anchors of a listing that links each of its promotions once per entry
AnchorsOf(content) ==
  [i \in 1..Len(content) |-> Anchor("relative", content[i].key, 0, content[i].title)]

\* lines 499-540: scrape_lensme, scrape_i_sha, scrape_lenbling, scrape_yourly,
\* scrape_i_dol
scrape_list_site(fn, content, fault) ==
  scrape_list_page_anchors(AnchorsOf(content), ListPatterns(fn).include,
                           ListPatterns(fn).exclude, DEFAULT_MAX_ITEMS, fault)

scrape_main_banners_by_image_links(content, fault) ==
  IF fault \in {"raise", "raise_dead"} THEN Raised
  ELSE LET results == Take(_dedup_keep_order(content), BANNER_MAX_ITEMS)
       IN  Result(FALSE, results,
                  IF results = <<>> THEN {<<"banner_no_results">>} ELSE {}, {})

scrape_olens(content, fault) ==
  IF fault \in {"raise", "raise_dead"} THEN Raised
  ELSE IF fault = "list_timeout" \/ content = <<>>
    THEN Result(FALSE, <<>>, {<<"olens_list_timeout">>}, {})
  ELSE LET cards == Take(content, OLENS_MAX_CARDS)
       IN  IF fault = "detail_timeout"
           THEN Result(FALSE, _dedup_keep_order(Tail(cards)),
                       {<<"olens_detail_timeout", "1">>}, {})
           ELSE Result(FALSE, _dedup_keep_order(cards), {}, {})

HAPA_FIXED_1 == 6824
HAPA_FIXED_2 == 6724

\* urls.sort(key=_event_id_from_url, reverse=True)
RECURSIVE sortedDesc(_)
sortedDesc(S) ==
  IF S = {} THEN <<>>
  ELSE Only({ Only({ <<m>> \o sortedDesc(T \ {m}) :
                m \in {CHOOSE x \in T : \A y \in T : x >= y} }) :
              T \in {S} })

\* A row of the header is [id, text]: id is the number of the /events/<id>
\* page the href names on the site (0: an empty href, another host or
\* another page), text is 0 for the texts "이벤트", "EVENT" and "".
HeaderRow(id, text) == [id |-> id, text |-> text]

\* lines 415-449: the event ids linked from header/nav, each once, highest
\* first, at most 10
_hapakristin_collect_header_event_ids(rows) ==
  Take(sortedDesc({r.id : r \in {x \in Range(rows) : x.id # 0 /\ x.text # 0}}),
       HAPA_MAX_EVENTS)

\* What safe_goto and page_looks_like_error meet on a fixed detail url:
\* raises (the navigation times out), status (0: None) and error_page (title
\* or markup holds one of the needles).
FixedPage(raises, status, error_page) ==
  [raises |-> raises, status |-> status, error_page |-> error_page]

\* a fixed url that is counted as bad although its status is unknown and
\* its page shows no error
FixedBad_NoneFails(fx) == fx.status = 0 \/ fx.status >= 400

\* lines 476-484: the validity check of one fixed url
FixedBad(fx) ==
  \/ fx.status # 0 /\ fx.status >= 400
  \/ fx.status = 0 /\ fx.error_page

\* lines 452-496.  site is [hover, rows, fixed]: whether the hover opens the
\* submenu and its entry can be clicked (lines 386-412), the rows of the
\* header after that, and what the two fixed urls answer.
Hapakristin(site) ==
  LET event_urls == IF site.hover
                    THEN _hapakristin_collect_header_event_ids(site.rows)
                    ELSE <<>>
      fixed      == <<Item(HAPA_FIXED_1), Item(HAPA_FIXED_2)>>
      bad        == {i \in 1..2 : FixedBad(site.fixed[i])}
  IN  IF event_urls # <<>>
      THEN Result(FALSE, [i \in 1..Len(event_urls) |-> Item(event_urls[i])], {}, {})
      ELSE IF \E i \in 1..2 : site.fixed[i].raises THEN Raised
      ELSE IF bad # {}
      THEN Result(FALSE, fixed, {<<"hapakristin_fixed_url_bad">>},
                  {<<"hapakristin_fixed_url_bad_info">>})
      ELSE Result(FALSE, fixed, {}, {})

\* scrape_hapakristin(page) on a site whose header links the promotions of
\* content; the faults are a hover that opens nothing and fixed urls that
\* answer with an error status
scrape_hapakristin(content, fault) ==
  IF fault \in {"raise", "raise_dead"} THEN Raised
  ELSE Hapakristin(
         [hover |-> fault \notin {"hover_fail", "fixed_bad"},
          rows  |-> [i \in 1..Len(content) |-> HeaderRow(content[i].key, 1)],
          fixed |-> [i \in 1..2 |->
                       FixedPage(FALSE, IF fault = "fixed_bad" THEN 404 ELSE 200, FALSE)]])

WINC_HOME == 9000

scrape_shop_winc(content, fault) ==
  IF fault \in {"raise", "raise_dead"} THEN Raised
  ELSE LET results == _dedup_keep_order(Take(content, DEFAULT_MAX_ITEMS))
       IN  IF results = <<>>
           THEN Result(FALSE, <<Item(WINC_HOME)>>, {<<"winc_no_event_links">>}, {})
           ELSE Result(FALSE, results, {}, {})

\* lines 595-622: the codes found in the strings of a page, each once, in
\* order; a string without a code is 0
RECURSIVE ExtractLoop(_, _)
ExtractLoop(strings, out) ==
  IF strings = <<>> THEN out
  ELSE Only({ ExtractLoop(x[1], x[2]) :
                x \in {<<Tail(strings),
                         IF Head(strings) = 0 \/ Head(strings) \in Range(out)
                         THEN out ELSE Append(out, Head(strings))>>} })

_extract_codes_from_strings(strings) == ExtractLoop(strings, <<>>)

\* A listing of ann365 is [pages, tail]: the strings of its list pages 1, 2,
\* ... and how the site answers a page number beyond the last one: with a
\* page without codes ("none") or with its last page again ("repeat").
Listing(pages, tail) == [pages |-> pages, tail |-> tail]

\* lines 635-664: what page.evaluate collects on list page pg
PageStrings(listing, pg) ==
  IF pg <= Len(listing.pages) THEN listing.pages[pg]
  ELSE IF listing.tail = "repeat" /\ listing.pages # <<>>
    THEN listing.pages[Len(listing.pages)]
  ELSE <<>>

\* lines 677-684: one code of codes_this_page; v holds results, seen_codes
\* and new_added
AddCode(v, code) ==
  IF code \in v.seen_codes THEN v
  ELSE [results    |-> Append(v.results, Item(code)),
        seen_codes |-> v.seen_codes \cup {code},
        new_added  |-> v.new_added + 1]

\* lines 676-685: the loop over codes_this_page, left after the append that
\* fills results
RECURSIVE AddCodes(_, _)
AddCodes(codes, v) ==
  IF codes = <<>> THEN v
  ELSE Only({ IF x[2] # v /\ Len(x[2].results) >= ANN365_MAX_ITEMS THEN x[2]
              ELSE AddCodes(x[1], x[2]) :
                x \in {<<Tail(codes), AddCode(v, Head(codes))>>} })

\* lines 674-688 for a page with codes: empty_streak is set to 0, the codes
\* are added (c), and empty_streak is incremented if none was new
AfterPage(v, c) ==
  [v EXCEPT !.results = c.results,
            !.seen_codes = c.seen_codes,
            !.empty_streak = IF c.new_added = 0 THEN 0 + 1 ELSE 0,
            !.added = Append(@, c.new_added)]

\* lines 666-672 for a page without codes
AfterEmptyPage(v, pg) ==
  [v EXCEPT !.empty_streak = @ + 1,
            !.added = Append(@, 0),
            !.shots = IF pg = 1 THEN @ \cup {<<"ann365_no_codes_page1">>} ELSE @]

\* lines 634-693: the loop over the list pages from page pg on.  v holds
\* results, seen_codes and empty_streak, the prefixes passed to _save_debug
\* (shots) and, for each page visited, the number of codes it added (added).
RECURSIVE Ann365Loop(_, _, _)
Ann365Loop(listing, pg, v) ==
  IF pg > ANN365_MAX_PAGES THEN v
  ELSE Only({
    IF codes = <<>>
    THEN Only({ IF w.empty_streak >= 2 THEN w ELSE Ann365Loop(listing, pg + 1, w) :
                  w \in {AfterEmptyPage(v, pg)} })
    ELSE Only({ IF (w.added[Len(w.added)] = 0 /\ w.empty_streak >= 2)
                     \/ Len(w.results) >= ANN365_MAX_ITEMS
                THEN w ELSE Ann365Loop(listing, pg + 1, w) :
                  w \in {AfterPage(v, AddCodes(codes, [results |-> v.results,
                                                       seen_codes |-> v.seen_codes,
                                                       new_added |-> 0]))} })
    : codes \in {_extract_codes_from_strings(PageStrings(listing, pg))} })

\* lines 625-699 on a listing
Ann365(listing, fault) ==
  IF fault \in {"raise", "raise_dead"} THEN [out |-> Raised, added |-> <<>>]
  ELSE Only({ [out |-> Result(FALSE, _dedup_keep_order(v.results),
                              v.shots \cup (IF v.results = <<>>
                                            THEN {<<"ann365_no_results">>} ELSE {}),
                              {}),
               added |-> v.added] :
              v \in {Ann365Loop(listing, 1,
                                [results |-> <<>>, seen_codes |-> {},
                                 empty_streak |-> 0, shots |-> {},
                                 added |-> <<>>])} })

\* scrape_ann365(page) on a site that shows its promotions on its first list
\* page and nothing on the pages after it
scrape_ann365(content, fault) ==
  Ann365(Listing(IF content = <<>> THEN <<>>
                 ELSE <<[i \in 1..Len(content) |-> content[i].key]>>, "none"),
         fault).out

\* fn(page) for the catalog entry cfg
CallFn(cfg, content, fault) ==
  CASE cfg.fn = "scrape_olens"       -> scrape_olens(content, fault)
    [] cfg.fn = "scrape_hapakristin" -> scrape_hapakristin(content, fault)
    [] cfg.fn = "scrape_shop_winc"   -> scrape_shop_winc(content, fault)
    [] cfg.fn = "scrape_ann365"      -> scrape_ann365(content, fault)
    [] cfg.fn \in {"scrape_myfipn", "scrape_chuulens", "scrape_gemhour"}
                                     -> scrape_main_banners_by_image_links(content, fault)
    [] OTHER                         -> scrape_list_site(cfg.fn, content, fault)

\* the failures one iteration can meet: new_page() raises; the extractor
\* raises (a navigation timeout); it raises because the page is gone, so that
\* the captures of the handler fail too; context.close() raises after the
\* extractor has returned; and the failures of
\* the site's own steps (a card that never appears, a click that times out,
\* a hover that opens no menu, a fixed detail url that answers with an error)
Faults(cfg) ==
  {"raise", "raise_dead", "new_page", "close_fail"}
    \cup (IF cfg.fn = "scrape_olens" THEN {"list_timeout", "detail_timeout"} ELSE {})
    \cup (IF cfg.fn = "scrape_hapakristin" THEN {"hover_fail", "fixed_bad"} ELSE {})


\* -------------------------------------------------------------- state file
\* A JSON document is [kind, seen, bad]:
\*   "missing"      no file                  "invalid"   not valid JSON
\*   "falsy"        null, 0, "", [] or {}    "scalar"    a number, true, "text"
\*   "list"         a non-empty array of strings (the old flat format)
\*   "list_seen"    such an array that contains the string "seen"
\*   "dict_noseen"  an object without "seen"
\*   "seen_nonmap"  an object whose "seen" is not an object
\*   "dict"         {"seen": {site: [key, ...]}}; seen gives the list of each
\*                  site ([] when absent), bad the sites whose entry is a
\*                  number or null instead of a list
NoSeen == [s \in SiteKeys |-> <<>>]

Doc(kind) == [kind |-> kind, seen |-> NoSeen, bad |-> {}]

\* load_state(): missing, unparsable and falsy documents give {}
load_state(f) ==
  IF f.kind \in {"missing", "invalid", "falsy"} THEN Doc("dict_noseen") ELSE f

\* save_state(state): the document json.dumps writes for state
save_state(st) == st

\* ------------------------------------------------------------------- state
VARIABLES
  file,         \* state/seen.json
  debugDir,     \* names of the files in debug/
  now,          \* the clock as _stamp() last read it, in seconds
  page,         \* page[site]: what the remote site exposes
  INIT_SILENT,  \* the module flag
  budget,       \* page changes and faults still allowed
  result,       \* how the last run of main() ended: "none", "done", "crashed"
  saved,        \* the last run called save_state
  log,          \* what each iteration of the last run did, in order (history)
  arg,          \* the argument of a helper that is exercised on its own
  ret,          \* what the helper returned
  called        \* the helper has been called

vars == <<file, debugDir, now, page, INIT_SILENT, budget, result, saved, log,
          arg, ret, called>>

\* ------------------------------------------------------------ remote pages
ListOf(n) == [i \in 1..n |-> Item(i)]

\* a long listing, newest first, whose first link is repeated further down
LongPage == <<Item(2), Item(1), Item(2)>> \o SubSeq(ListOf(PageLen), 3, PageLen)

\* the listings a site can expose: nothing, one promotion, a long listing
Pages == { <<>>, ListOf(1), LongPage }

InitCommon ==
  /\ debugDir = {}
  /\ now = 0
  /\ page = [s \in SiteKeys |-> ListOf(1)]
  /\ result = "none"
  /\ saved = FALSE
  /\ log = <<>>

NoCall ==
  /\ arg = <<>>
  /\ ret = <<>>
  /\ called = FALSE

\* a fresh deployment of the program as shipped: no state file yet
Init ==
  /\ InitCommon
  /\ NoCall
  /\ file = Doc("missing")
  /\ INIT_SILENT = FALSE
  /\ budget = MaxEvents

\* the same deployment with the flag of line 47 switched on
InitSilent ==
  /\ InitCommon
  /\ NoCall
  /\ file = Doc("missing")
  /\ INIT_SILENT = TRUE
  /\ budget = MaxEvents

\* a deployment that finds a state file it did not necessarily write
StateFiles ==
  { Doc("missing"), Doc("invalid"), Doc("falsy"), Doc("list"), Doc("list_seen"),
    Doc("scalar"), Doc("dict_noseen"), Doc("seen_nonmap"), Doc("dict"),
    [Doc("dict") EXCEPT !.seen["O-Lens"] = <<1>>],
    [Doc("dict") EXCEPT !.bad = {"Lens-me"}] }

InitFile ==
  /\ InitCommon
  /\ NoCall
  /\ file \in StateFiles
  /\ INIT_SILENT = FALSE
  /\ budget = MaxEvents

\* --------------------------------------------------------------- main()
\* ---- the pieces of one iteration of `for cfg in SITES` (lines 741-834)
\* lines 757-771: the extractor call under try/except; pageOpen is
\* `page is not None`, i.e. new_page() returned
RunExtractor(cfg, content, fault) ==
  IF fault = "new_page" THEN Raised ELSE CallFn(cfg, content, fault)

\* a run loop without the handlers: whatever is raised leaves the iteration
Escapes_Uncaught(what, raised) == raised

\* lines 766-778, 801-804 and 827-830: whether an exception raised in the try
\* body (what = "extract"), by context.close() ("close") or by a post
\* ("test_post", "prod_post") leaves its try statement.  `except Exception`
\* takes each of them.
Escapes(what, raised) == FALSE

\* lines 763-764 and 771: the items the loop goes on with
LoopItems(r) == IF r.raised THEN <<>> ELSE _dedup_keep_order(r.items)

\* lines 769-770: the handler's capture, only when the page exists
ErrorShots(site_key, raised, pageOpen) ==
  IF raised /\ pageOpen THEN {<<"error", ReplaceSpaces(site_key)>>} ELSE {}

\* the files the captures of this iteration leave in debug/
Written(shots, texts, stamp, wr) ==
  UNION {_save_debug(p, stamp, wr) : p \in shots}
    \cup UNION {_save_debug_text(p, stamp, wr) : p \in texts}

\* line 784: new_debug_files = debug_after - debug_before
NewDebugFiles(debug_before, debug_after) == debug_after \ debug_before

\* a warning for every site, whatever the listings say
TestCalls_Always(new_debug_files) == 1

\* lines 787-804: one call of post_slack_test when there is a new file
TestCalls(new_debug_files) == IF new_debug_files # {} THEN 1 ELSE 0

\* line 806: state["seen"].get(...) raises on a "seen" that is no mapping,
\* set(...) raises on an entry that is no list
SeenLookupRaises(st, site_key) == st.kind # "dict" \/ site_key \in st.bad

\* line 806: seen_set = set(state["seen"].get(site_key, []))
SeenSet(st, site_key) == Range(st.seen[site_key])

\* a loop without the silent-initialisation branch
SilentBranch_Never(flag, seen_set, items) == FALSE

\* line 808: the silent-initialisation branch is taken
SilentBranch(flag, seen_set, items) == flag /\ seen_set = {} /\ items # <<>>

\* lines 809-812: the keys the silent branch records
SilentKeys(items) == {it.key : it \in Range(items)} \ {0}

\* every keyed item counts as new, whatever the seen-set holds
NewItems_IgnoreSeen(items, seen_set) ==
  SelectFrom(items, {it \in Range(items) : it.key # 0})

\* line 818: new_items
NewItems(items, seen_set) ==
  SelectFrom(items, {it \in Range(items) : it.key # 0 /\ it.key \notin seen_set})

\* a production message for every new item, without the cap
Notified_NoCap(new_items) == new_items

\* line 823: the items that get a production message, new_items[:10]
Notified(new_items) == Take(new_items, MaxNotify)

\* a loop that never stores the seen-set of a site
StoreSeen_Forget(st, site_key, seen_set) == st

\* lines 813 and 833: state["seen"][site_key] = sorted(seen_set)
StoreSeen(st, site_key, seen_set) == [st EXCEPT !.seen[site_key] = sorted(seen_set)]

\* lines 725-727: state = load_state(); if "seen" not in state: state["seen"] = {}
\* On a list or a scalar the membership test or the assignment raises.
LoadRaises(st) == st.kind \in {"list", "scalar"}

EnsureSeen(st) == IF st.kind = "dict_noseen" THEN Doc("dict") ELSE st

\* The loop's variables between two iterations: main's state and
\* any_state_changed, the debug directory and the clock, whether an exception
\* has left the loop, and the history of the iterations so far.
Acc(st, dir, clk, changed, crashed, lg) ==
  [state |-> st, debugDir |-> dir, now |-> clk, any_state_changed |-> changed,
   crashed |-> crashed, log |-> lg]

\* One iteration of `for cfg in SITES` (lines 741-834) from the loop state a.
\*   content   what the site exposes
\*   fault     the failure the extractor call meets ("none": it returns)
\*   capture   how the debug captures of the iteration go: "lost" (every write
\*             fails), "fresh" (written, the clock has moved on since the
\*             capture before), "stale" (written within the same second)
\*   prodDown, testDown   the posts to that webhook raise
\* A post that finds its webhook url unset returns without posting; the loop
\* cannot tell it from a delivered post, so both are the non-raising outcome.
\*
\* lines 749-784: the extractor call r has returned or raised; the captures
\* of the call and of the handler reach debug/, and the listing is taken again
Captured(a, cfg, r, fault, capture) ==
  LET pageOpen == fault # "new_page"
      shots    == r.shots \cup ErrorShots(cfg.site, r.raised, pageOpen)
      stamp    == IF capture = "fresh" /\ shots \cup r.texts # {}
                  THEN a.now + 1 ELSE a.now
      wr       == IF capture = "lost" THEN {} ELSE Exts
  IN  [site |-> cfg.site, raised |-> r.raised, pageOpen |-> pageOpen,
       closeRaised |-> fault = "close_fail", items |-> LoopItems(r),
       written |-> Written(shots, r.texts, stamp, wr),
       dirBefore |-> a.debugDir,
       dirAfter |-> a.debugDir \cup Written(shots, r.texts, stamp, wr),
       stamp |-> stamp]

\* lines 787-818: the warning on the test channel, the look-up of the
\* seen-set and the choice of the new items
Looked(a, c, flag, testDown) ==
  LET testCalls  == TestCalls(NewDebugFiles(c.dirBefore, c.dirAfter))
      testRaised == testDown /\ testCalls > 0
      crash      == \/ Escapes("extract", c.raised)
                    \/ Escapes("close", c.closeRaised)
                    \/ Escapes("test_post", testRaised)
                    \/ SeenLookupRaises(a.state, c.site)
      seen_set   == IF crash THEN {} ELSE SeenSet(a.state, c.site)
      silent     == ~crash /\ SilentBranch(flag, seen_set, c.items)
  IN  [c |-> c, testCalls |-> testCalls, testRaised |-> testRaised,
       crash |-> crash, seen_set |-> seen_set, silent |-> silent,
       new_items |-> IF crash \/ silent THEN <<>> ELSE NewItems(c.items, seen_set)]

\* lines 808-834: the silent branch, or the production posts and the update
\* of state["seen"][site_key]; the loop state after the iteration
Committed(a, k, notified, prodDown) ==
  LET c          == k.c
      prodRaised == prodDown /\ notified # <<>>
      added      == IF k.silent THEN SilentKeys(c.items)
                    ELSE {it.key : it \in Range(notified)}
      changed    == k.silent \/ k.new_items # <<>>
      crash      == k.crash \/ Escapes("prod_post", prodRaised)
      entry      == [site |-> c.site, raised |-> c.raised, pageOpen |-> c.pageOpen,
                     closeRaised |-> c.closeRaised,
                     items |-> c.items, seenBefore |-> k.seen_set, silent |-> k.silent,
                     crashed |-> crash, written |-> c.written,
                     dirBefore |-> c.dirBefore, dirAfter |-> c.dirAfter,
                     testCalls |-> k.testCalls, testRaised |-> k.testRaised,
                     prodCalls |-> [i \in 1..Len(notified) |-> notified[i].key],
                     prodRaised |-> prodRaised,
                     seenAfter |-> IF k.crash THEN {}
                                   ELSE IF changed THEN k.seen_set \cup added
                                   ELSE k.seen_set]
  IN  IF crash
      THEN Acc(a.state, c.dirAfter, c.stamp, a.any_state_changed, TRUE,
               Append(a.log, entry))
      ELSE Acc(IF changed THEN StoreSeen(a.state, c.site, k.seen_set \cup added)
               ELSE a.state,
               c.dirAfter, c.stamp, a.any_state_changed \/ changed, FALSE,
               Append(a.log, entry))

Iteration(a, cfg, content, fault, capture, prodDown, testDown) ==
  Only({ Only({ Committed(a, k, notified, prodDown) :
                  notified \in {Notified(k.new_items)} }) :
           k \in { Looked(a, c, INIT_SILENT, testDown) :
                     c \in { Captured(a, cfg, r, fault, capture) :
                               r \in {RunExtractor(cfg, content, fault)} } } })

\* for cfg in SITES: from position i on; an exception that leaves an iteration
\* leaves the loop and main()
RECURSIVE Loop(_, _, _, _, _, _)
Loop(i, a, content, fault, capture, down) ==
  IF i > NSites \/ a.crashed THEN a
  ELSE Only({ Loop(i + 1, b, content, fault, capture, down) :
                b \in {Iteration(a, SITES[i], content[SITES[i].site],
                                 fault[SITES[i].site], capture[SITES[i].site],
                                 down.prod, down.test)} })

\* ---------------------------------------------------- inputs of one run
NoFaults == [s \in SiteKeys |-> "none"]

\* the assignments of faults to sites that meet at most b faults
RECURSIVE FaultMaps(_)
FaultMaps(b) ==
  IF b = 0 THEN {NoFaults}
  ELSE LET prev == FaultMaps(b - 1)
       IN  prev \cup UNION { UNION { {[f EXCEPT ![SITES[i].site] = x] : x \in Faults(SITES[i])}
                                     : i \in 1..NSites } : f \in prev }

FaultCount(fm) == Cardinality({s \in SiteKeys : fm[s] # "none"})

\* the sites whose iteration calls a debug writer
Capturing(fm) ==
  {SITES[i].site : i \in {j \in 1..NSites :
      LET r == RunExtractor(SITES[j], page[SITES[j].site], fm[SITES[j].site])
      IN  r.shots \cup r.texts
            \cup ErrorShots(SITES[j].site, r.raised, fm[SITES[j].site] # "new_page") # {}}}

\* how the captures of a run go: "fresh" unless the page is gone ("lost");
\* at most b of them are anomalies, a capture whose writes all fail ("lost")
\* or one that reads the same second as the capture before ("stale")
NormalCapture(fm) ==
  [s \in SiteKeys |-> IF fm[s] = "raise_dead" THEN "lost" ELSE "fresh"]

RECURSIVE CaptureMaps(_, _)
CaptureMaps(fm, b) ==
  IF b <= 0 THEN {NormalCapture(fm)}
  ELSE LET prev == CaptureMaps(fm, b - 1)
           C    == {s \in Capturing(fm) : fm[s] # "raise_dead"}
       IN  prev \cup {[cm EXCEPT ![x[1]] = x[2]] :
                        cm \in prev, x \in C \X {"lost", "stale"}}

AnomalyCount(fm, cm) == Cardinality({s \in SiteKeys : cm[s] # NormalCapture(fm)[s]})

\* a run that saves whenever it reaches its end
Persists_Always(crashed, any_state_changed) == ~crashed

\* lines 841-845: main() reaches its end and saves only if something changed
Persists(crashed, any_state_changed) == ~crashed /\ any_state_changed

\* the webhooks that are down during a run, at most b of them
Outages(b) ==
  {d \in [prod : BOOLEAN, test : BOOLEAN] :
     (IF d.prod THEN 1 ELSE 0) + (IF d.test THEN 1 ELSE 0) <= b}

OutageCount(d) == (IF d.prod THEN 1 ELSE 0) + (IF d.test THEN 1 ELSE 0)

\* main(), lines 724-845, from start to exit
Main ==
  \E fm \in FaultMaps(budget) :
  \E cm \in CaptureMaps(fm, budget - FaultCount(fm)) :
  \E down \in Outages(budget - FaultCount(fm) - AnomalyCount(fm, cm)) :
    LET loaded == load_state(file)
        a0     == Acc(EnsureSeen(loaded), debugDir, now, FALSE, FALSE, <<>>)
    IN  \E a \in {IF LoadRaises(loaded) THEN [a0 EXCEPT !.crashed = TRUE]
                   ELSE Loop(1, a0, page, fm, cm, down)} :
          /\ a.now <= MaxTime
          /\ budget' = budget - FaultCount(fm) - AnomalyCount(fm, cm) - OutageCount(down)
          /\ debugDir' = a.debugDir
          /\ now' = a.now
          /\ log' = a.log
          /\ result' = IF a.crashed THEN "crashed" ELSE "done"
          /\ saved' = Persists(a.crashed, a.any_state_changed)
          /\ file' = IF Persists(a.crashed, a.any_state_changed)
                     THEN save_state(a.state) ELSE file
          /\ UNCHANGED <<page, INIT_SILENT, arg, ret, called>>

\* ------------------------------------------------------------ environment
\* a site changes what it exposes; the history of the last run is dropped
Publish ==
  /\ budget > 0
  /\ \E s \in SiteKeys : \E c \in Pages :
        /\ c # page[s]
        /\ page' = [page EXCEPT ![s] = c]
  /\ budget' = budget - 1
  /\ result' = "none"
  /\ saved' = FALSE
  /\ log' = <<>>
  /\ UNCHANGED <<file, debugDir, now, INIT_SILENT, arg, ret, called>>

Next == Main \/ Publish

Spec == Init /\ [][Next]_vars

SpecSilent == InitSilent /\ [][Next]_vars

SpecFile == InitFile /\ [][Next]_vars

\* ------------------------------------------------- helpers on their own
\* no run of main(): the program state stays as deployed
Idle ==
  /\ InitCommon
  /\ file = Doc("missing")
  /\ INIT_SILENT = FALSE
  /\ budget = 0

RECURSIVE SeqsUpTo(_, _)
SeqsUpTo(S, n) ==
  IF n = 0 THEN {<<>>}
  ELSE LET shorter == SeqsUpTo(S, n - 1)
       IN  shorter \cup {Append(q, x) : q \in shorter, x \in S}

\* items as an extractor may build them: each field a string or empty/missing
DedupItems ==
  {[key |-> k, url |-> u, title |-> t] : k \in 0..2, u \in 0..1, t \in 0..1}

InitDedup ==
  /\ Idle
  /\ arg \in SeqsUpTo(DedupItems, MaxLen)
  /\ ret = <<>>
  /\ called = FALSE

\* lines 96-105: one call _dedup_keep_order(arg)
CallDedup ==
  /\ ~called
  /\ ret' = _dedup_keep_order(arg)
  /\ called' = TRUE
  /\ UNCHANGED <<file, debugDir, now, page, INIT_SILENT, budget, result, saved, log, arg>>

SpecDedup == InitDedup /\ [][CallDedup]_vars

\* the anchors of a list page: links to two promotion pages and to the other
\* page, each with or without a query string, an absolute link, an empty
\* href and a javascript: href
PageAnchors ==
  {Anchor("relative", p, q, p) : p \in {1, 2, OtherPath}, q \in 0..1}
    \cup {Anchor("absolute", 1, 0, 0), Anchor("empty", 0, 0, 1),
          Anchor("javascript", 0, 0, 1)}

InitList ==
  /\ Idle
  /\ arg \in SeqsUpTo(PageAnchors, MaxLen)
  /\ ret = <<>>
  /\ called = FALSE

\* lines 237-279: one call of scrape_list_page_anchors on a page whose anchors
\* are arg, with the patterns and the cap of the caller
CallList ==
  /\ ~called
  /\ \E inc \in {<<>>, <<"event">>, <<"site">>}, exc \in {<<>>, <<"other">>},
        max_items \in {2, DEFAULT_MAX_ITEMS} :
       ret' = [include |-> inc, exclude |-> exc, max_items |-> max_items,
               out |-> scrape_list_page_anchors(arg, inc, exc, max_items, "none")]
  /\ called' = TRUE
  /\ UNCHANGED <<file, debugDir, now, page, INIT_SILENT, budget, result, saved, log, arg>>

SpecList == InitList /\ [][CallList]_vars

\* the strings of a list page of ann365: none, one code, two codes with a
\* repetition and a string without a code, more codes than max_items
BigPage == [i \in 1..(ANN365_MAX_ITEMS + 1) |-> i + 2]

AnnPages == { <<>>, <<1>>, <<2>>, <<1, 0, 2, 1>>, BigPage }

InitAnn ==
  /\ Idle
  /\ arg \in {Listing(ps, t) : ps \in SeqsUpTo(AnnPages, MaxLen), t \in {"none", "repeat"}}
  /\ ret = <<>>
  /\ called = FALSE

\* lines 625-699: one call of scrape_ann365 on the listing arg
CallAnn ==
  /\ ~called
  /\ ret' = Ann365(arg, "none")
  /\ called' = TRUE
  /\ UNCHANGED <<file, debugDir, now, page, INIT_SILENT, budget, result, saved, log, arg>>

SpecAnn == InitAnn /\ [][CallAnn]_vars

\* the sites scrape_hapakristin can meet: the hover works or not, the header
\* holds up to MaxLen rows, each fixed url raises or answers with a status
\* (none, 200, 404) and a page that looks like an error page or not
HeaderRows == {HeaderRow(0, 1), HeaderRow(1, 1), HeaderRow(2, 1), HeaderRow(2, 0)}

FixedPages ==
  {FixedPage(FALSE, st, e) : st \in {0, 200, 404}, e \in BOOLEAN}
    \cup {FixedPage(TRUE, 0, FALSE)}

InitHapa ==
  /\ Idle
  /\ arg \in [hover : BOOLEAN, rows : SeqsUpTo(HeaderRows, MaxLen),
              fixed : [1..2 -> FixedPages]]
  /\ ret = <<>>
  /\ called = FALSE

\* lines 452-496: one call of scrape_hapakristin on the site arg
CallHapa ==
  /\ ~called
  /\ ret' = Hapakristin(arg)
  /\ called' = TRUE
  /\ UNCHANGED <<file, debugDir, now, page, INIT_SILENT, budget, result, saved, log, arg>>

SpecHapa == InitHapa /\ [][CallHapa]_vars

\* ------------------------------------------------------ a steady backlog
\* A fresh deployment in front of sites that do not change and do not fail:
\* one site lists K promotions, K in 1..PageLen, the others one each.  The
\* scheduler starts main() again and again.
InitBacklog ==
  /\ debugDir = {}
  /\ now = 0
  /\ \E s \in SiteKeys, K \in 1..PageLen :
       page = [x \in SiteKeys |-> IF x = s THEN ListOf(K) ELSE ListOf(1)]
  /\ result = "none"
  /\ saved = FALSE
  /\ log = <<>>
  /\ NoCall
  /\ file = Doc("missing")
  /\ INIT_SILENT = FALSE
  /\ budget = 0

SpecBacklog == InitBacklog /\ [][Main]_vars /\ WF_vars(Main)

\* a deployment that starts while the listings of up to two sites are empty
InitEmptied ==
  /\ debugDir = {}
  /\ now = 0
  /\ \E E \in {S \in SUBSET SiteKeys : Cardinality(S) <= 2} :
       page = [s \in SiteKeys |-> IF s \in E THEN <<>> ELSE ListOf(1)]
  /\ result = "none"
  /\ saved = FALSE
  /\ log = <<>>
  /\ NoCall
  /\ file = Doc("missing")
  /\ INIT_SILENT = FALSE
  /\ budget = MaxEvents

SpecEmptied == InitEmptied /\ [][Next]_vars

TypeOK ==
  /\ result \in {"none", "done", "crashed"}
  /\ now \in 0..MaxTime
  /\ budget \in 0..MaxEvents
  /\ Len(log) <= NSites

(***************************************************************************)
(* Properties.  They read the log of the last run: one entry for each      *)
(* iteration of the loop over SITES, in the order of the iterations.       *)
(***************************************************************************)
Entries == Range(log)

KeysOf(items) == {items[i].key : i \in 1..Len(items)}

\* the positions of e.items whose item carries a key that is not in the
\* seen-set the iteration started from
UnseenAt(e) ==
  {i \in 1..Len(e.items) : e.items[i].key # 0 /\ e.items[i].key \notin e.seenBefore}

\* C1: over runs that complete normally, each loading the state file the run
\* before it left, a key of a site's seen-state is in that site's seen-state
\* after the run too (in memory and in the file), and no production message is
\* posted for it in the run.
C1_SeenKeysStay ==
  [][ result' = "done" =>
        \A i \in 1..Len(log') :
          LET e     == log'[i]
              known == Range(load_state(file).seen[e.site])
          IN  /\ e.seenBefore = known
              /\ known \subseteq e.seenAfter
              /\ known \subseteq Range(file'.seen[e.site])
              /\ known \cap Range(e.prodCalls) = {} ]_vars

\* a later run extracts an item whose key an earlier run recorded, and posts
\* nothing for the site
C1_Witness ==
  /\ result = "done"
  /\ \E e \in Entries :
       /\ KeysOf(e.items) \cap e.seenBefore # {}
       /\ e.prodCalls = <<>>
       /\ e.seenBefore \subseteq Range(file.seen[e.site])

\* C2: in a run, for each site, the production posts are those of the first
\* MaxNotify items, in extracted order after dedup, whose key is not in the
\* site's seen-state, one post each and none for another item; the keys of
\* exactly those items join the seen-state, also when the posts raise.
C2_OnePostPerNewItem ==
  \A e \in Entries :
    ~e.crashed =>
      LET first == {i \in UnseenAt(e) :
                      Cardinality({j \in UnseenAt(e) : j < i}) < MaxNotify}
      IN  /\ Len(e.prodCalls) = Cardinality(first)
          /\ \A i \in first :
               e.prodCalls[1 + Cardinality({j \in first : j < i})] = e.items[i].key
          /\ e.seenAfter = e.seenBefore \cup {e.items[i].key : i \in first}

\* a site shows more new items than the cap: MaxNotify posts, the rest waits
C2_Witness ==
  \E e \in Entries :
    /\ Cardinality(UnseenAt(e)) > MaxNotify
    /\ Len(e.prodCalls) = MaxNotify
    /\ Cardinality(e.seenAfter \ e.seenBefore) = MaxNotify

\* C3: for every site in every run at most one warning is posted on the test
\* channel, and one is posted exactly when the listing of debug/ taken after
\* the extractor holds a file name that the listing taken before it does not
\* hold.
C3_OneWarningPerNewDebug ==
  \A e \in Entries :
    /\ e.testCalls \in {0, 1}
    /\ e.testCalls = 1 <=> e.dirAfter \ e.dirBefore # {}

\* a site whose error capture of an earlier run is still in debug/ gets no
\* warning in a run that adds no file
C3_Witness ==
  \E e \in Entries :
    /\ \E f \in e.dirBefore : f.prefix = <<"error", ReplaceSpaces(e.site)>>
    /\ e.dirAfter = e.dirBefore
    /\ e.testCalls = 0

C5_RaiseLeavesArtifact ==
  \A e \in Entries :
    (e.raised /\ e.pageOpen) =>
      /\ e.items = <<>>
      /\ e.prodCalls = <<>>
      /\ e.seenAfter = e.seenBefore
      /\ ~e.crashed
      /\ \E f \in e.written : f.prefix = <<"error", ReplaceSpaces(e.site)>>

\* an extractor raised on an open page and the handler's capture left nothing
C5_Witness ==
  \E e \in Entries :
    e.raised /\ e.pageOpen /\ e.written = {} /\ e.dirAfter = e.dirBefore

\* C6, as the specification states it: with silent initialisation on and an
\* empty seen-set for the site, a run posts nothing on the production channel
\* for the site and leaves a non-empty seen-set, equal to the extracted keys.
C6_SilentAlwaysRecords ==
  \A e \in Entries :
    (INIT_SILENT /\ ~e.crashed /\ e.seenBefore = {}) =>
      /\ e.prodCalls = <<>>
      /\ e.seenAfter # {}
      /\ e.seenAfter = KeysOf(e.items) \ {0}

\* C6, amended: with silent initialisation on, an empty seen-set for the site
\* and at least one extracted item, a run posts nothing on the production
\* channel for the site, and the state file it writes holds for the site a
\* non-empty seen-set equal to the extracted keys.  With no extracted item the
\* seen-set of the site stays empty.
C6_SilentRecordsItems ==
  \A e \in Entries :
    (INIT_SILENT /\ ~e.crashed /\ e.seenBefore = {}) =>
      /\ e.prodCalls = <<>>
      /\ e.items # <<>> =>
           /\ e.seenAfter # {}
           /\ e.seenAfter = KeysOf(e.items) \ {0}
           /\ result = "done" => saved /\ Range(file.seen[e.site]) = e.seenAfter
      /\ e.items = <<>> => e.seenAfter = {}

\* a first run under silent initialisation that recorded a site's items
C6_Witness ==
  /\ INIT_SILENT
  /\ result = "done"
  /\ saved
  /\ \E e \in Entries :
       /\ e.seenBefore = {}
       /\ e.items # <<>>
       /\ e.prodCalls = <<>>
       /\ Range(file.seen[e.site]) = KeysOf(e.items)

\* C7: for every list of items _dedup_keep_order returns, for each dedup key
\* of the list, the first item that carries it and no other item, in the
\* order of the list; items without a dedup key are left out.
C7_FirstOccurrenceKept ==
  called =>
    LET firsts == {i \in 1..Len(arg) :
                     /\ DedupKey(arg[i]) # 0
                     /\ \A j \in 1..(i - 1) : DedupKey(arg[j]) # DedupKey(arg[i])}
    IN  /\ Len(ret) = Cardinality(firsts)
        /\ \A i \in firsts : ret[1 + Cardinality({j \in firsts : j < i})] = arg[i]

\* a list in which a later, different item repeats a dedup key
C7_Witness ==
  /\ called
  /\ \E i, j \in 1..Len(arg) :
       /\ i < j
       /\ DedupKey(arg[i]) # 0
       /\ DedupKey(arg[i]) = DedupKey(arg[j])
       /\ arg[i] # arg[j]
       /\ arg[i] \in Range(ret)
       /\ arg[j] \notin Range(ret)

\* the page of C8: /event/view/55, /event/view/55?ref=home and /about
EventPage ==
  << Anchor("relative", 1, 0, 1), Anchor("relative", 1, 1, 1),
     Anchor("relative", OtherPath, 0, OtherPath) >>

\* C8, as the specification states it: with the allow-list /event/view/\d+
\* the page with the anchors /event/view/55, /event/view/55?ref=home and
\* /about yields exactly one item, and none for /about.
C8_VariantsCollapse ==
  (called /\ arg = EventPage /\ ret.include = <<"event">>
     /\ ret.max_items = DEFAULT_MAX_ITEMS) =>
    /\ Len(ret.out.items) = 1
    /\ \A i \in 1..Len(ret.out.items) : UrlPath(ret.out.items[i].key) # OtherPath

\* the call on that page returns an item for each of the two hrefs of the
\* promotion and none for /about
C8_Witness ==
  /\ called
  /\ arg = EventPage
  /\ ret.include = <<"event">>
  /\ ret.max_items = DEFAULT_MAX_ITEMS
  /\ [i \in 1..Len(ret.out.items) |-> ret.out.items[i].key] = <<Url(1, 0), Url(1, 1)>>

\* C9, as the specification states it: whatever the state file holds
\* (nothing, invalid JSON, JSON of another shape), a run does not fail because
\* of it: main() makes its iteration for every site and ends normally.
C9_AnyStateFileLoads ==
  result # "none" =>
    /\ result = "done"
    /\ Len(log) = NSites
    /\ \A e \in Entries : ~e.crashed

\* a run that ended with an exception before or at the first look-up of
\* state["seen"], the state file left as it was found
C9_Witness ==
  /\ result = "crashed"
  /\ Len(log) <= 1
  /\ ~saved
  /\ file.kind \in {"list", "list_seen", "scalar", "seen_nonmap"}

\* C10: a run that ends normally writes the state file exactly when the
\* seen-set of some site gained a key in the run; a run that finds every
\* extracted key in the state posts no production message and writes nothing.
C10_WriteIffKeyGained ==
  result = "done" =>
    /\ saved <=> \E e \in Entries : e.seenAfter \ e.seenBefore # {}
    /\ (\A e \in Entries : KeysOf(e.items) \ {0} \subseteq e.seenBefore) =>
         /\ ~saved
         /\ \A e \in Entries : e.prodCalls = <<>> /\ e.seenAfter = e.seenBefore

\* a run over pages whose keys are all in the state file: items extracted,
\* nothing posted, nothing written
C10_Witness ==
  /\ result = "done"
  /\ ~saved
  /\ \A e \in Entries :
       /\ e.items # <<>>
       /\ KeysOf(e.items) \subseteq Range(file.seen[e.site])
       /\ e.prodCalls = <<>>

\* C11, as stated: in scrape_ann365 the loop over the list pages stops at the
\* second of two consecutive pages that each added no code to the results
\* (no codes on the page, or only codes collected before); it visits at most
\* ANN365_MAX_PAGES pages and returns at most ANN365_MAX_ITEMS results.
C11_StopsAfterTwoBarrenPages ==
  called =>
    /\ Len(ret.added) <= ANN365_MAX_PAGES
    /\ Len(ret.out.items) <= ANN365_MAX_ITEMS
    /\ \A pg \in 2..Len(ret.added) :
         (ret.added[pg - 1] = 0 /\ ret.added[pg] = 0) => pg = Len(ret.added)

\* a call that visited every page up to max_pages although no page after the
\* first added a code
C11_Witness ==
  /\ called
  /\ Len(ret.added) = ANN365_MAX_PAGES
  /\ ret.added[1] > 0
  /\ \A pg \in 2..ANN365_MAX_PAGES : ret.added[pg] = 0

\* the hover of arg led to at least one event link of the header
MenuLinks ==
  arg.hover /\ \E i \in 1..Len(arg.rows) : arg.rows[i].id # 0 /\ arg.rows[i].text # 0

\* fixed url i of arg answered with an error status, or with no status and
\* a page that looks like an error page
FailsCheck(i) ==
  \/ arg.fixed[i].status >= 400
  \/ arg.fixed[i].status = 0 /\ arg.fixed[i].error_page

\* C12: a call of scrape_hapakristin that returns captures a debug artifact
\* exactly when the hover led to no event link and a fixed detail url fails
\* its validity check; in particular it captures none when the hover led
\* nowhere and both fixed urls pass.  In each case the returned list is not
\* empty, and it is the list of the two fixed urls when the hover led nowhere.
C12_DebugOnlyOnBadFixedUrl ==
  (called /\ ~ret.raised) =>
    /\ (ret.shots \cup ret.texts # {}) <=> (~MenuLinks /\ \E i \in 1..2 : FailsCheck(i))
    /\ ret.items # <<>>
    /\ ~MenuLinks =>
         [i \in 1..Len(ret.items) |-> ret.items[i].key] = <<HAPA_FIXED_1, HAPA_FIXED_2>>

\* a call whose hover opened nothing, whose fixed urls answered without a
\* status and without an error page, and that captured nothing
C12_Witness ==
  /\ called
  /\ ~ret.raised
  /\ ~arg.hover
  /\ \A i \in 1..2 : arg.fixed[i].status = 0 /\ ~arg.fixed[i].error_page
  /\ ret.shots \cup ret.texts = {}
  /\ Len(ret.items) = 2

\* the last run found every extracted key in the seen-state and posted nothing
Quiet ==
  /\ result = "done"
  /\ \A e \in Entries : KeysOf(e.items) \subseteq e.seenBefore /\ e.prodCalls = <<>>

\* C13: with silent initialisation off, the state file carried from run to
\* run and sites that keep returning the same items, each run posts at most
\* MaxNotify keys per site, all of them outside the seen-state, and the keys
\* that enter the seen-state of the site in the run are exactly the posted
\* ones (the items beyond the cap stay out); the runs go on until every
\* returned key is in the seen-state, and from then on nothing is posted.
C13_BacklogDrains ==
  /\ [][ result' = "done" =>
           \A i \in 1..Len(log') :
             LET e      == log'[i]
                 before == Range(load_state(file).seen[e.site])
                 after  == Range(file'.seen[e.site])
             IN  /\ Len(e.prodCalls) <= MaxNotify
                 /\ \A j, k \in 1..Len(e.prodCalls) :
                      e.prodCalls[j] = e.prodCalls[k] => j = k
                 /\ Range(e.prodCalls) \cap before = {}
                 /\ after = before \cup Range(e.prodCalls) ]_vars
  /\ <>[](Quiet /\ \A e \in Entries : KeysOf(e.items) \subseteq Range(file.seen[e.site]))

\* a backlog of more than MaxNotify keys has been worked off: all of them
\* are in the state file and the last run posted nothing
C13_Witness ==
  /\ Quiet
  /\ ~saved
  /\ \E e \in Entries :
       /\ Cardinality(KeysOf(e.items)) > MaxNotify
       /\ KeysOf(e.items) \subseteq Range(file.seen[e.site])

\* C14: whenever the processing of a site writes a debug file (the extractor
\* or the handler of the run loop), the listing of debug/ taken after the
\* site holds a name the listing taken before does not hold, and a warning on
\* the test channel is attempted for the site; also when a file with the same
\* prefix was written earlier under the same second.
C14_WrittenFileIsNew ==
  \A e \in Entries :
    e.written # {} => e.dirAfter \ e.dirBefore # {} /\ e.testCalls = 1

\* two sites with an empty listing capture list_no_results within one
\* second: the second capture writes the files of the first again, the
\* listing gains no name and the second site gets no warning
C14_Witness ==
  \E i, j \in 1..Len(log) :
    /\ i < j
    /\ log[i].written # {}
    /\ log[i].testCalls = 1
    /\ log[j].written = log[i].written
    /\ log[j].dirAfter = log[j].dirBefore
    /\ log[j].testCalls = 0

====
